---- MODULE Spec2Model ----
(***************************************************************************)
(* The skills sorting game (src/src/components/skills/SkillPill.tsx,       *)
(* lines 254-1053: the SkillsGame component) as a state machine.           *)
(*                                                                         *)
(* Lengths are in CSS pixels at visual scale VS = 1; velocities are in     *)
(* hundredths of a pixel per step, times in clock units.  The rigid-body   *)
(* integration of matter-js is not part of the repository: a simulation    *)
(* step moves every body of the world to one of a few representative       *)
(* places (PhysicsOutcomes), and the handlers of the component then act    *)
(* on the result exactly as the source does.                               *)
(***************************************************************************)
EXTENDS Integers, Sequences, FiniteSets, TLC

VARIABLES
  SKILLS,          \* the catalog the session was given (item ids)
  tagRefs,         \* tagRefs.current: items whose chip element is mounted
  shown,           \* el.style.left / top of the chip elements: id -> [x, y]
  rafId,           \* the frame callback of sync is scheduled (rafRef.current)
  runner,          \* the runner is stepping the engine (runnerRef.current)
  mounted,         \* the component is mounted
  rect,            \* containerRef.getBoundingClientRect(): [width, height]
  engine,          \* engineRef.current # null
  gen,             \* how many times the chips were respawned by handleReset
  world,           \* skill bodies in engine.world (handles <<id, gen>>)
  bodyRefs,        \* bodyRefs.current: item id -> handle
  bodies,          \* per body object: [x, y, vy, mask]
  mcBody,          \* mouseConstraint.body: the body the pointer holds
  draggingId,      \* draggingIdRef.current (0 = null)
  oobFrames,       \* oobFramesRef.current: id -> frames out of bounds
  releaseGrace,    \* releaseGraceRef.current: id -> grace frames left
  bucketItems,     \* bucketItems state: category -> sequence of ids
  sortedCount,     \* sortedCount state
  bucketMinHeight, \* bucketMinHeight state
  floorY,          \* floorBodyRef.current.position.y
  now,             \* performance.now()
  startTime,       \* startTimeRef.current
  elapsedMs,       \* elapsedMs state
  timerId,         \* timerIdRef.current # null (the interval is scheduled)
  stopped,         \* stopped state
  bestMs,          \* bestMs state: <<>> (null) or <<v>>
  storage,         \* localStorage[PB_KEY]
  lastWasPB,       \* lastWasPB state
  pending,         \* passive effects committed but not yet run
  effectElapsed,   \* elapsedMs as closed over by the pending completion effect
  framesLeft       \* simulation steps this run may still take (negative: no cap)

vars == <<SKILLS, tagRefs, shown, rafId, runner, mounted, rect, engine, gen, world, bodyRefs, bodies, mcBody, draggingId,
          oobFrames, releaseGrace, bucketItems, sortedCount, bucketMinHeight,
          floorY, now, startTime, elapsedMs, timerId, stopped, bestMs, storage,
          lastWasPB, pending, effectElapsed, framesLeft>>

(***************************** bounds **************************************)
MaxItems == 2
MaxFrames == 1
MaxResets == 1
MaxClock == 1
SoloItems == 1

(*************************** the catalog ***********************************)
categories == <<"Programming Languages", "Web & Cloud", "Database", "DevOps & Tools">>

skills == 1..20

CategoryOf(id) ==
  IF id <= 6 THEN categories[1]
  ELSE IF id <= 13 THEN categories[2]
  ELSE IF id <= 17 THEN categories[3]
  ELSE categories[4]

CategorySet == {categories[k] : k \in 1..Len(categories)}

\* n consecutive catalog entries that straddle the first category boundary
CatalogWindow(n) == {id \in skills : 6 <= id /\ id < 6 + n}

(*************************** constants *************************************)
VS == 1
BUCKET_BOTTOM == 12
FLOOR_CLEARANCE == 10
CHIP_ROW_EST == 26
GRID_COLS == 4
GRID_LEFT_PCT == 12
GRID_COL_STEP_PCT == 22
GRID_TOP_PCT == 10
GRID_ROW_STEP_PCT == 13
GUARD_LEFT == 18
GUARD_RIGHT == 18
GUARD_TOP == 18
SETTLE_KICK == 600
WRONG_DROP_BOUNCE == 700
FLOOR_MIN_REBOUND == 550
CAT_SKILL == 1
CAT_BOUNDS == 2
SKILL_MASK_DEFAULT == 3
SKILL_MASK_DRAG == 1
OOB_SOFT_FRAMES == 50
OOB_HARD_FRAMES == 90
\* a faulty grace window, one tick short
ShortGrace == 36 - 1
RELEASE_GRACE_FRAMES == 36
InitialBucketMinHeight == 96
FloorHalfH == 9
RestVy == 8
OobTol == 8

\* measured sizes: a chip's box and the container
ChipW == 96
ChipH == 32
ContainerW == 800
ContainerH == 400
BucketW == 170
BucketGap == 24

NoBody == <<0, 0>>
Uncapped == 0 - 1

Min(a, b) == IF a < b THEN a ELSE b
Max(a, b) == IF a > b THEN a ELSE b
Abs(a) == IF a < 0 THEN 0 - a ELSE a

(*************************** geometry **************************************)
ContainerRect == [width |-> ContainerW, height |-> ContainerH]
ZeroRect == [width |-> 0, height |-> 0]

\* a container too low for a play box between the top guard and the floor,
\* and one too narrow for a play box between the side guards
ShortRect == [width |-> ContainerW, height |-> 150]
NarrowRect == [width |-> 60, height |-> ContainerH]

Index(id, items) == Cardinality({j \in items : j < id})

computeFloorY(r, bmh) ==
  (r.height - (BUCKET_BOTTOM * VS + bmh + FLOOR_CLEARANCE * VS)) + FloorHalfH * VS

clampX(x, r) ==
  Min(Max(x, GUARD_LEFT * VS + 24), r.width - GUARD_RIGHT * VS - 24)

clampY(y, r, bmh) ==
  Min(Max(y, GUARD_TOP * VS + 24), r.height - (bmh + BUCKET_BOTTOM * VS + 20))

gridPos(idx, r, bmh) ==
  [x |-> clampX((r.width * (GRID_LEFT_PCT + (idx % GRID_COLS) * GRID_COL_STEP_PCT)) \div 100, r),
   y |-> clampY((r.height * (GRID_TOP_PCT + (idx \div GRID_COLS) * GRID_ROW_STEP_PCT)) \div 100, r, bmh)]

getPlayBox(r, fY) ==
  LET floorTop == fY - FloorHalfH * VS
      left0 == GUARD_LEFT * VS
      right0 == r.width - GUARD_RIGHT * VS
      top0 == GUARD_TOP * VS
      bottom0 == floorTop - 4
      mid == r.height \div 2
      midX == r.width \div 2
      flatY == bottom0 - top0 < 40
      flatX == right0 - left0 < 40
      top == IF flatY THEN Max(4, mid - 20) ELSE top0
      bottom == IF flatY THEN Min(r.height - 4, mid + 20) ELSE bottom0
      left == IF flatX THEN Max(4, midX - 20) ELSE left0
      right == IF flatX THEN Min(r.width - 4, midX + 20) ELSE right0
  IN [left |-> left, right |-> right, top |-> top, bottom |-> bottom,
      cx |-> (left + right) \div 2, cy |-> (top + bottom) \div 2]

\* the screen rectangle of the k-th bucket, in container coordinates
BucketRect(k, r, bmh) ==
  LET left == BucketGap + (k - 1) * (BucketW + BucketGap)
      bottom == r.height - BUCKET_BOTTOM
  IN [left |-> left, right |-> left + BucketW, top |-> bottom - bmh, bottom |-> bottom]

(*************************** spawning **************************************)
ScatterVy == 300

\* spawnChip followed by scatterChips, for one item: the body's first state
spawnChip(id, items, r, bmh) ==
  LET p == gridPos(Index(id, items), r, bmh)
  IN [x |-> clampX(p.x, r), y |-> clampY(p.y, r, bmh), vy |-> 0 - ScatterVy,
      mask |-> SKILL_MASK_DEFAULT]

\* the half diagonal spawnChip measures for the display clamp (whole pixels)
halfDiag(w, h) == (CHOOSE k \in 0..(w + h) : k * k <= w * w + h * h /\ w * w + h * h < (k + 1) * (k + 1)) \div 2

chipDiag == halfDiag(Max(28 * VS, ChipW), Max(24 * VS, ChipH))

\* what the element's style is given: left and top
styleAt(p) == [x |-> p.x, y |-> p.y]

\* a faulty display clamp: the simulated position is published as it is
displayRaw(b, d, r) == styleAt(b)

\* the display clamp of sync
displayClamp(b, d, r) ==
  [x |-> Min(Max(b.x, d), r.width - d), y |-> Min(Max(b.y, d), r.height - d)]

EmptyBuckets == [c \in CategorySet |-> <<>>]

growBuckets(items) ==
  LET maxItems == Max(0, CHOOSE n \in 0..20 :
                       /\ \E c \in CategorySet : Len(items[c]) = n
                       /\ \A c \in CategorySet : Len(items[c]) <= n)
  IN 50 * VS + Max(1, maxItems) * CHIP_ROW_EST * VS

(*************************** the ledger ************************************)
NoStored == <<"none", 0>>
JunkStored == <<"junk", 0>>
NumStored(v) == <<"num", v>>

\* the load effect: getItem may throw; Number(raw) may be NaN
loadBest(stored, readOk) ==
  IF readOk /\ stored[1] = "num" THEN <<stored[2]>> ELSE <<>>

(*************************** initial states ********************************)
\* the state once the effects of the first render have run: the world was built
\* with the first render's bucketMinHeight, the grow effect has set the state
\* to its computed value, and the floor effect of that re-render is still due
\* the state after the first commit and the mount effect; mounts: the sets of
\* items whose chip element the ref callbacks may have registered by then
InitFrom(items, mounts, frames, stores, rects) ==
  /\ SKILLS = items
  /\ tagRefs \in mounts
  /\ rect \in rects
  /\ engine = (rect.width # 0 /\ rect.height # 0)
  /\ gen = 0
  /\ world = IF engine THEN {<<id, 0>> : id \in tagRefs} ELSE {}
  /\ bodyRefs = IF engine THEN [id \in tagRefs |-> <<id, 0>>] ELSE <<>>
  /\ bodies = IF engine
              THEN [h \in {<<id, 0>> : id \in tagRefs} |->
                      spawnChip(h[1], items, rect, InitialBucketMinHeight)]
              ELSE <<>>
  /\ shown = IF engine
             THEN [id \in tagRefs |->
                     displayClamp(spawnChip(id, items, rect, InitialBucketMinHeight),
                                  chipDiag, rect)]
             ELSE <<>>
  /\ rafId = engine
  /\ runner = engine
  /\ mounted = TRUE
  /\ mcBody = NoBody
  /\ draggingId = 0
  /\ oobFrames = <<>>
  /\ releaseGrace = <<>>
  /\ bucketItems = EmptyBuckets
  /\ sortedCount = 0
  /\ bucketMinHeight = growBuckets(EmptyBuckets)
  /\ floorY = IF engine THEN computeFloorY(rect, InitialBucketMinHeight) ELSE 0
  /\ now = 0
  /\ startTime = 0
  /\ elapsedMs = 0
  /\ timerId = TRUE
  /\ stopped = FALSE
  /\ storage \in stores
  /\ \E readOk \in BOOLEAN : bestMs = loadBest(storage, readOk)
  /\ lastWasPB = FALSE
  /\ pending = IF engine THEN {"floor"} ELSE {}
  /\ effectElapsed = 0
  /\ framesLeft = frames

InitWith(items, frames, stores, rects) == InitFrom(items, {items}, frames, stores, rects)

Init == InitWith(CatalogWindow(MaxItems), MaxFrames, {NoStored}, {ContainerRect, ZeroRect})

(*************************** maps (Map.get / set / delete) *****************)
MapGet(m, k) == IF k \in DOMAIN m THEN m[k] ELSE 0
MapSet(m, k, v) == [j \in (DOMAIN m) \cup {k} |-> IF j = k THEN v ELSE m[j]]
MapDel(m, k) == [j \in (DOMAIN m) \ {k} |-> m[j]]
Range(m) == {m[k] : k \in DOMAIN m}

\* body objects that are still referenced: the world's and the pointer's
Keep(b, w, held) == [h \in (w \cup ({held} \ {NoBody})) \cap DOMAIN b |-> b[h]]

(*************************** the timer *************************************)
\* a faulty restart: the displayed time is not put back to zero
startTimerLate ==
  /\ startTime' = now
  /\ elapsedMs' = elapsedMs
  /\ stopped' = FALSE
  /\ lastWasPB' = FALSE
  /\ timerId' = TRUE

\* a faulty restart: the new-best flag of the last run is left standing
startTimerFlagged ==
  /\ startTime' = now
  /\ elapsedMs' = 0
  /\ stopped' = FALSE
  /\ lastWasPB' = lastWasPB
  /\ timerId' = TRUE

startTimer ==
  /\ startTime' = now
  /\ elapsedMs' = 0
  /\ stopped' = FALSE
  /\ lastWasPB' = FALSE
  /\ timerId' = TRUE

\* the setInterval callback
IntervalTick ==
  /\ timerId
  /\ elapsedMs' = IF mounted THEN now - startTime ELSE elapsedMs
  /\ UNCHANGED <<SKILLS, tagRefs, shown, rafId, runner, mounted,
                 rect, engine, gen, world, bodyRefs, bodies, mcBody, draggingId,
                 oobFrames, releaseGrace, bucketItems, sortedCount, bucketMinHeight,
                 floorY, now, startTime, timerId, stopped, bestMs, storage,
                 lastWasPB, pending, effectElapsed, framesLeft>>

\* time passes
Advance ==
  /\ now < MaxClock
  /\ now' = now + 1
  /\ UNCHANGED <<SKILLS, tagRefs, shown, rafId, runner, mounted,
                 rect, engine, gen, world, bodyRefs, bodies, mcBody, draggingId,
                 oobFrames, releaseGrace, bucketItems, sortedCount, bucketMinHeight,
                 floorY, startTime, elapsedMs, timerId, stopped, bestMs, storage,
                 lastWasPB, pending, effectElapsed, framesLeft>>

(*************************** reset *****************************************)
clearChipBodies(w, refs) == w \ Range(refs)

handleReset ==
  /\ mounted
  /\ pending = {}
  /\ gen < MaxResets
  /\ gen' = gen + 1
  /\ bucketItems' = EmptyBuckets
  /\ sortedCount' = 0
  /\ startTimer
  /\ IF engine
     THEN LET fresh == {<<id, gen + 1>> : id \in SKILLS \cap tagRefs}
              w == clearChipBodies(world, bodyRefs) \cup fresh
              b == [h \in DOMAIN bodies \cup fresh |->
                      IF h \in fresh
                      THEN spawnChip(h[1], SKILLS, rect, bucketMinHeight)
                      ELSE bodies[h]]
          IN /\ world' = w
             /\ bodyRefs' = [id \in SKILLS \cap tagRefs |-> <<id, gen + 1>>]
             /\ bodies' = Keep(b, w, mcBody)
             /\ shown' = [id \in DOMAIN shown \cup (SKILLS \cap tagRefs) |->
                            IF id \in tagRefs
                            THEN styleAt(gridPos(Index(id, SKILLS), rect, bucketMinHeight))
                            ELSE shown[id]]
     ELSE UNCHANGED <<world, bodyRefs, bodies, shown>>
  /\ pending' = {"grow"}
  /\ UNCHANGED <<SKILLS, tagRefs, rafId, runner, mounted,
                 rect, engine, mcBody, draggingId, oobFrames, releaseGrace,
                 bucketMinHeight, floorY, now, bestMs, storage, effectElapsed,
                 framesLeft>>

(*************************** dragging **************************************)
NoCat == ""

Inside(m, r) == m.x >= r.left /\ m.x <= r.right /\ m.y >= r.top /\ m.y <= r.bottom

\* a faulty loop, without the break: the last rectangle that holds the
\* pointer wins
lastHit(m, rs) ==
  LET ks == {k \in 1..Len(rs) : Inside(m, rs[k])}
  IN IF ks = {} THEN NoCat
     ELSE categories[CHOOSE k \in ks : \A j \in ks : k >= j]

\* the enddrag handler's loop over the categories, given the rectangles of
\* their buckets: the first one whose rectangle holds the pointer
firstHit(m, rs) ==
  LET ks == {k \in 1..Len(rs) : Inside(m, rs[k])}
  IN IF ks = {} THEN NoCat
     ELSE categories[CHOOSE k \in ks : \A j \in ks : k <= j]

hitTest(m, r, bmh) ==
  firstHit(m, [k \in 1..Len(categories) |-> BucketRect(k, r, bmh)])

BucketCentre(k, r, bmh) ==
  LET b == BucketRect(k, r, bmh)
  IN [x |-> (b.left + b.right) \div 2, y |-> (b.top + b.bottom) \div 2]

\* where the pointer may be when the button goes up: inside each bucket, on
\* the corner of the first one, and in the open play area
ReleasePoints(r, bmh) ==
  {BucketCentre(k, r, bmh) : k \in 1..Len(categories)}
    \cup {[x |-> BucketRect(1, r, bmh).left, y |-> BucketRect(1, r, bmh).top],
          [x |-> r.width \div 2, y |-> r.height \div 4]}

\* Bounds.contains / Vertices.contains of an unrotated chip
Contains(b, p) == Abs(p.x - b.x) * 2 <= ChipW /\ Abs(p.y - b.y) * 2 <= ChipH

\* the order of Composite.allBodies(engine.world): insertion order
Before(g, h) == g[2] < h[2] \/ (g[2] = h[2] /\ g[1] < h[1])

\* MouseConstraint.update with the button down and no body held: every body
\* of the world under the pointer gets the startdrag event, in world order,
\* and the constraint holds the last of them
startdrag(p) ==
  LET hits == {h \in world : Contains(bodies[h], p)}
      held == CHOOSE h \in hits : \A g \in hits : g = h \/ Before(g, h)
      ids == {h[1] : h \in hits}
  IN /\ hits # {}
     /\ bodies' = [h \in DOMAIN bodies |->
                     IF h \in hits THEN [bodies[h] EXCEPT !.mask = SKILL_MASK_DRAG]
                     ELSE bodies[h]]
     /\ mcBody' = held
     /\ draggingId' = held[1]
     /\ oobFrames' = [j \in (DOMAIN oobFrames) \cup ids |->
                        IF j \in ids THEN 0 ELSE oobFrames[j]]
     /\ releaseGrace' = [j \in (DOMAIN releaseGrace) \ ids |-> releaseGrace[j]]

StartDragAt(p) ==
  /\ engine
  /\ pending = {}
  /\ mcBody = NoBody
  /\ startdrag(p)
  /\ UNCHANGED <<SKILLS, tagRefs, shown, rafId, runner, mounted,
                 rect, engine, gen, world, bodyRefs, bucketItems, sortedCount,
                 bucketMinHeight, floorY, now, startTime, elapsedMs, timerId, stopped,
                 bestMs, storage, lastWasPB, pending, effectElapsed, framesLeft>>

\* the button goes down on some body of the world
StartDrag == \E h \in world : StartDragAt([x |-> bodies[h].x, y |-> bodies[h].y])

\* a faulty category test: every bucket accepts every item
anyCategory(id, hitCat) == TRUE

\* skillObj.category === hitCat
sameCategory(id, hitCat) == CategoryOf(id) = hitCat

\* a faulty updater: the item is dropped but never listed
dropNowhere(items, cat, id) == items

\* a faulty updater: the item is appended without the membership test
dropAgain(items, cat, id) == [items EXCEPT ![cat] = Append(@, id)]

\* the setBucketItems updater of the enddrag handler
dropInto(items, cat, id) ==
  IF \E k \in 1..Len(items[cat]) : items[cat][k] = id
  THEN items
  ELSE [items EXCEPT ![cat] = Append(@, id)]

\* a faulty wrong-bucket branch: the body is left where it was released
wrongDropStill(b, r, fY) == b

\* the wrong-bucket branch: pop the body back above the floor with a bounce
wrongDrop(b, r, fY) ==
  [b EXCEPT !.x = clampX(b.x, r), !.y = fY - ChipH \div 2 - 2,
            !.vy = 0 - WRONG_DROP_BOUNCE]

\* a faulty open-play branch: a body released below the floor line is left there
openDropStill(b, fY) == b

\* the open-play branch: lift a body released below the floor line
openDrop(b, fY) ==
  IF b.y > fY - ChipH \div 2
  THEN [b EXCEPT !.y = fY - ChipH \div 2 - 2, !.vy = 0 - SETTLE_KICK]
  ELSE b

enddrag(m) ==
  LET b == mcBody
      id == b[1]
      hitCat == hitTest(m, rect, bucketMinHeight)
      restored == [bodies[b] EXCEPT !.mask = SKILL_MASK_DEFAULT]
      correct == hitCat # NoCat /\ sameCategory(id, hitCat)
      wrong == hitCat # NoCat /\ ~sameCategory(id, hitCat)
      items == dropInto(bucketItems, hitCat, id)
      done == sortedCount + 1 = Cardinality(SKILLS)
      moved == IF wrong THEN wrongDrop(restored, rect, floorY)
               ELSE openDrop(restored, floorY)
  IN /\ draggingId' = 0
     /\ oobFrames' = MapSet(oobFrames, id, 0)
     /\ releaseGrace' = MapSet(releaseGrace, id, RELEASE_GRACE_FRAMES)
     /\ mcBody' = NoBody
     /\ IF correct
        THEN /\ world' = world \ {b}
             /\ bodyRefs' = MapDel(bodyRefs, id)
             /\ bodies' = Keep(bodies, world \ {b}, NoBody)
             /\ bucketItems' = items
             /\ sortedCount' = sortedCount + 1
             /\ pending' = (IF items # bucketItems THEN {"grow"} ELSE {})
                             \cup (IF done THEN {"complete"} ELSE {})
             /\ effectElapsed' = IF done THEN elapsedMs ELSE effectElapsed
        ELSE /\ bodies' = Keep([bodies EXCEPT ![b] = moved], world, NoBody)
             /\ UNCHANGED <<world, bodyRefs, bucketItems, sortedCount, pending,
                            effectElapsed>>

EndDragAt(m) ==
  /\ engine
  /\ pending = {}
  /\ mcBody # NoBody
  /\ enddrag(m)
  /\ UNCHANGED <<SKILLS, tagRefs, shown, rafId, runner, mounted,
                 rect, engine, gen, bucketMinHeight, floorY, now, startTime,
                 elapsedMs, timerId, stopped, bestMs, storage, lastWasPB, framesLeft>>

\* MouseConstraint.update with the button up and a body held
EndDrag == \E m \in ReleasePoints(rect, bucketMinHeight) : EndDragAt(m)

(*************************** the simulation step ***************************)
\* where Engine.update may leave a body: in the air inside the play area,
\* at rest sunk into the floor line, outside the left guard, below the floor
PhysicsOutcomes(r, fY) ==
  {[x |-> r.width \div 2, y |-> r.height \div 4, vy |-> 300],
   [x |-> r.width \div 2, y |-> fY - ChipH \div 2, vy |-> 0],
   [x |-> 0, y |-> r.height \div 4, vy |-> 0],
   [x |-> r.width \div 2, y |-> fY + 40, vy |-> 300]}

outOfPlay(b, play) ==
  \/ b.x < play.left - OobTol
  \/ b.x > play.right + OobTol
  \/ b.y < play.top - OobTol
  \/ b.y > play.bottom + OobTol

settleKick(b, fY) ==
  IF Abs(b.vy) < RestVy /\ b.y > fY - ChipH \div 2 - 2
  THEN [b EXCEPT !.vy = 0 - SETTLE_KICK]
  ELSE b

\* a faulty hard rescue: the target is bounded by the floor alone
hardRescueLow(b, play, fY) ==
  [b EXCEPT !.x = play.cx,
            !.y = Min(play.bottom - ChipH \div 2 - 4, fY - ChipH \div 2 - 4),
            !.vy = 0 - SETTLE_KICK]

hardRescue(b, play, fY) ==
  LET maxY == Min(play.bottom - ChipH \div 2 - 4, fY - ChipH \div 2 - 4)
      targetY == Max(play.top + ChipH \div 2 + 4, Min((play.top + play.bottom) \div 2, maxY))
  IN [b EXCEPT !.x = play.cx, !.y = targetY, !.vy = 0 - SETTLE_KICK]

\* a faulty soft rescue: the body is left where it is
noRescue(b, play, fY) == b

\* a faulty soft rescue: the body is taken to the centre of the play box
softRescueCentre(b, play, fY) ==
  [b EXCEPT !.x = play.cx, !.y = play.cy, !.vy = 0 - SETTLE_KICK]

softRescue(b, play, fY) ==
  LET targetX == Min(Max(b.x, play.left + 6), play.right - 6)
      maxY == Min(play.bottom - ChipH \div 2 - 4, fY - ChipH \div 2 - 4)
      targetY == Min(Max(b.y, play.top + ChipH \div 2 + 4), maxY)
  IN [b EXCEPT !.x = targetX, !.y = targetY, !.vy = 0 - SETTLE_KICK]

\* the afterUpdate handler for one entry of the body registry: the body, its
\* counter, its grace frames (set only in the grace branch) and the rescue applied
afterUpdate(id, b, n0, grace, dragging, play, fY) ==
  IF dragging = id
  THEN [b |-> b, oob |-> 0, graceSet |-> FALSE, grace |-> 0, fix |-> "none"]
  ELSE IF grace > 0
  THEN [b |-> b, oob |-> 0, graceSet |-> TRUE, grace |-> grace - 1, fix |-> "none"]
  ELSE LET k == settleKick(b, fY)
           n == n0 + 1
       IN IF ~outOfPlay(k, play)
          THEN [b |-> k, oob |-> 0, graceSet |-> FALSE, grace |-> 0, fix |-> "none"]
          ELSE IF n > OOB_HARD_FRAMES
          THEN [b |-> hardRescue(k, play, fY), oob |-> 0, graceSet |-> FALSE,
                grace |-> 0, fix |-> "hard"]
          ELSE IF n > OOB_SOFT_FRAMES
          THEN [b |-> softRescue(k, play, fY), oob |-> n, graceSet |-> FALSE,
                grace |-> 0, fix |-> "soft"]
          ELSE [b |-> k, oob |-> n, graceSet |-> FALSE, grace |-> 0, fix |-> "none"]

TickWith(f) ==
  /\ engine
  /\ runner
  /\ pending = {}
  /\ framesLeft # 0
  /\ framesLeft' = IF framesLeft > 0 THEN framesLeft - 1 ELSE framesLeft
  /\ LET moved == [h \in DOMAIN bodies |->
                     IF h \in world
                     THEN [bodies[h] EXCEPT !.x = f[h].x, !.y = f[h].y, !.vy = f[h].vy]
                     ELSE bodies[h]]
         play == getPlayBox(rect, floorY)
         res == [id \in DOMAIN bodyRefs |->
                   afterUpdate(id, moved[bodyRefs[id]], MapGet(oobFrames, id),
                               MapGet(releaseGrace, id), draggingId, play, floorY)]
     IN /\ bodies' = [h \in DOMAIN bodies |->
                        IF h[1] \in DOMAIN bodyRefs /\ bodyRefs[h[1]] = h
                        THEN res[h[1]].b ELSE moved[h]]
        /\ oobFrames' = [j \in (DOMAIN oobFrames) \cup (DOMAIN bodyRefs) |->
                           IF j \in DOMAIN bodyRefs THEN res[j].oob ELSE oobFrames[j]]
        /\ releaseGrace' = [j \in DOMAIN releaseGrace |->
                              IF j \in DOMAIN bodyRefs /\ res[j].graceSet
                              THEN res[j].grace ELSE releaseGrace[j]]
  /\ UNCHANGED <<SKILLS, tagRefs, shown, rafId, runner, mounted,
                 rect, engine, gen, world, bodyRefs, mcBody, draggingId,
                 bucketItems, sortedCount, bucketMinHeight, floorY, now, startTime,
                 elapsedMs, timerId, stopped, bestMs, storage, lastWasPB, pending,
                 effectElapsed>>

\* one Runner tick: Engine.update, then the afterUpdate handler
Tick == \E f \in [world -> PhysicsOutcomes(rect, floorY)] : TickWith(f)

(*************************** passive effects *******************************)
\* "Grow buckets together": runs when bucketItems changed
GrowEffect ==
  /\ "grow" \in pending
  /\ bucketMinHeight' = growBuckets(bucketItems)
  /\ pending' = (pending \ {"grow"})
                  \cup (IF engine /\ bucketMinHeight' # bucketMinHeight THEN {"floor"} ELSE {})
  /\ UNCHANGED <<SKILLS, tagRefs, shown, rafId, runner, mounted,
                 rect, engine, gen, world, bodyRefs, bodies, mcBody, draggingId,
                 oobFrames, releaseGrace, bucketItems, sortedCount, floorY, now,
                 startTime, elapsedMs, timerId, stopped, bestMs, storage, lastWasPB,
                 effectElapsed, framesLeft>>

\* a faulty updater: every completion counts as a personal best
updateAlways(prev, elapsed, stored, writeOk) ==
  [isPB |-> TRUE, best |-> <<elapsed>>,
   stored |-> IF writeOk THEN NumStored(elapsed) ELSE stored]

\* a faulty updater: a write that fails takes the new best with it
updateStrict(prev, elapsed, stored, writeOk) ==
  LET isPB == writeOk /\ (prev = <<>> \/ elapsed < prev[1])
  IN [isPB |-> isPB,
      best |-> IF isPB THEN <<elapsed>> ELSE prev,
      stored |-> IF isPB THEN NumStored(elapsed) ELSE stored]

\* the setBestMs updater of the completion effect; setItem may throw
updateBest(prev, elapsed, stored, writeOk) ==
  LET isPB == prev = <<>> \/ elapsed < prev[1]
  IN [isPB |-> isPB,
      best |-> IF isPB THEN <<elapsed>> ELSE prev,
      stored |-> IF isPB /\ writeOk THEN NumStored(elapsed) ELSE stored]

\* "Stop the timer + compute PB": runs when allSorted became true
CompletionEffect ==
  /\ "complete" \in pending
  /\ "grow" \notin pending
  /\ timerId' = FALSE
  /\ stopped' = TRUE
  /\ \E writeOk \in BOOLEAN :
       LET u == updateBest(bestMs, effectElapsed, storage, writeOk)
       IN /\ lastWasPB' = u.isPB
          /\ bestMs' = u.best
          /\ storage' = u.stored
  /\ pending' = pending \ {"complete"}
  /\ effectElapsed' = 0
  /\ UNCHANGED <<SKILLS, tagRefs, shown, rafId, runner, mounted,
                 rect, engine, gen, world, bodyRefs, bodies, mcBody, draggingId,
                 oobFrames, releaseGrace, bucketItems, sortedCount, bucketMinHeight,
                 floorY, now, startTime, elapsedMs, framesLeft>>

liftAbove(b, newY) ==
  IF b.y > newY - ChipH \div 2
  THEN [b EXCEPT !.y = newY - ChipH \div 2 - 1, !.vy = 0 - SETTLE_KICK]
  ELSE b

\* "Floor tracks bucket growth": runs when bucketMinHeight changed
FloorEffect ==
  /\ pending = {"floor"}
  /\ LET newY == computeFloorY(rect, bucketMinHeight)
     IN /\ floorY' = newY
        /\ bodies' = [h \in DOMAIN bodies |->
                        IF h[1] \in DOMAIN bodyRefs /\ bodyRefs[h[1]] = h
                        THEN liftAbove(bodies[h], newY) ELSE bodies[h]]
  /\ pending' = {}
  /\ UNCHANGED <<SKILLS, tagRefs, shown, rafId, runner, mounted,
                 rect, engine, gen, world, bodyRefs, mcBody, draggingId,
                 oobFrames, releaseGrace, bucketItems, sortedCount, bucketMinHeight,
                 now, startTime, elapsedMs, timerId, stopped, bestMs, storage,
                 lastWasPB, effectElapsed, framesLeft>>

(*************************** the specification *****************************)
Next ==
  \/ StartDrag
  \/ EndDrag
  \/ Tick
  \/ handleReset
  \/ IntervalTick
  \/ Advance
  \/ GrowEffect
  \/ CompletionEffect
  \/ FloorEffect

Spec == Init /\ [][Next]_vars

\* one chip and a simulation that runs for as long as it likes: long enough
\* for the out-of-bounds counters to reach both rescue thresholds
InitRescue == InitWith(CatalogWindow(SoloItems), Uncapped, {NoStored}, {ContainerRect})

SpecRescue == InitRescue /\ [][Next]_vars

\* one chip and every kind of stored best time: nothing, something that is
\* no number, and a number on either side of the times a run can take
InitLedger ==
  InitWith(CatalogWindow(SoloItems), MaxFrames,
           {NoStored, JunkStored} \cup {NumStored(v) : v \in 0..MaxClock}, {ContainerRect})

SpecLedger == InitLedger /\ [][Next]_vars

(*************************** properties ************************************)
BucketSizes ==
  Len(bucketItems[categories[1]]) + Len(bucketItems[categories[2]])
    + Len(bucketItems[categories[3]]) + Len(bucketItems[categories[4]])

Bucketed ==
  UNION {{bucketItems[c][k] : k \in 1..Len(bucketItems[c])} : c \in CategorySet}

Orphans == world \ Range(bodyRefs)

\* C1 (conservation): once the engine has been built, in every reachable
\* state the number of bodies in the registry plus the sum of the bucket sizes
\* equals the number of catalog items, and no item is both in the registry and
\* in a bucket.
C1_Conservation ==
  engine =>
    /\ Cardinality(DOMAIN bodyRefs) + BucketSizes = Cardinality(SKILLS)
    /\ (DOMAIN bodyRefs) \cap Bucketed = {}

\* after a reset one item is bucketed, another is live, and the world also
\* holds a body the registry does not know
C1_Witness ==
  /\ engine
  /\ gen > 0
  /\ BucketSizes > 0
  /\ DOMAIN bodyRefs # {}
  /\ Orphans # {}

InOwnBucket ==
  \A c \in CategorySet :
    \A k \in 1..Len(bucketItems[c]) : CategoryOf(bucketItems[c][k]) = c

WrongRelease(m) ==
  /\ mcBody # NoBody
  /\ hitTest(m, rect, bucketMinHeight) # NoCat
  /\ hitTest(m, rect, bucketMinHeight) # CategoryOf(mcBody[1])

\* C2 (sort correctness): every item listed in a bucket has that bucket's
\* category, and an end-drag whose release point is inside a bucket of another
\* category leaves every bucket as it was.
C2_SortCorrectness ==
  /\ []InOwnBucket
  /\ [][\A m \in ReleasePoints(rect, bucketMinHeight) :
          (WrongRelease(m) /\ EndDragAt(m)) => bucketItems' = bucketItems]_vars

\* a bucket holds an item while a live body carries the bounce of a wrong drop
C2_Witness ==
  /\ BucketSizes > 0
  /\ \E id \in DOMAIN bodyRefs : bodies[bodyRefs[id]].vy = 0 - WRONG_DROP_BOUNCE

\* C3 (bucket permanence): between two resets every bucket only grows at its
\* end (an item keeps its bucket and its list position), and in every state an
\* item is listed at most once over all the buckets.
C3_Permanence ==
  /\ [](BucketSizes = Cardinality(Bucketed))
  /\ [][gen' = gen =>
          \A c \in CategorySet :
            /\ Len(bucketItems[c]) <= Len(bucketItems'[c])
            /\ \A k \in 1..Len(bucketItems[c]) :
                 bucketItems'[c][k] = bucketItems[c][k]]_vars

\* an item was dropped into its bucket a second time: the drops counted
\* exceed the items listed
C3_Witness == sortedCount > BucketSizes /\ BucketSizes > 0

DraggedBodies == {h \in DOMAIN bodies : bodies[h].mask = SKILL_MASK_DRAG}

Under(p) == {h \in world : Contains(bodies[h], p)}

First(hs) == CHOOSE h \in hs : \A g \in hs : g = h \/ Before(h, g)

\* C4 (exclusivity of drag): in every state at most one body has the drag
\* collision mask, and when the button goes down over several bodies only the
\* first begin-drag is taken: the dragged id is the first body's, and the
\* other bodies keep their mask and their out-of-bounds counter.
C4_DragExclusive ==
  /\ [](Cardinality(DraggedBodies) <= 1)
  /\ [][\A h \in world :
          LET p == [x |-> bodies[h].x, y |-> bodies[h].y]
              first == First(Under(p))
          IN StartDragAt(p) =>
               /\ draggingId' = first[1]
               /\ \A g \in Under(p) \ {first} :
                    /\ bodies'[g].mask = bodies[g].mask
                    /\ MapGet(oobFrames', g[1]) = MapGet(oobFrames, g[1])]_vars

\* what the afterUpdate handler owes a registered body that the simulation
\* step f left outside the play box, neither dragged nor in grace
RescueRule(f, zeroAfterSoft) ==
  \A id \in DOMAIN bodyRefs :
    LET h == bodyRefs[id]
        play == getPlayBox(rect, floorY)
        n == MapGet(oobFrames, id) + 1
    IN (draggingId # id /\ MapGet(releaseGrace, id) = 0 /\ outOfPlay(f[h], play)) =>
         /\ n <= OOB_SOFT_FRAMES =>
              /\ oobFrames'[id] = n
              /\ bodies'[h].x = f[h].x /\ bodies'[h].y = f[h].y
         /\ (n > OOB_SOFT_FRAMES /\ n <= OOB_HARD_FRAMES) =>
              /\ ~outOfPlay(bodies'[h], play)
              /\ oobFrames'[id] = IF zeroAfterSoft THEN 0 ELSE n
         /\ n > OOB_HARD_FRAMES =>
              /\ ~outOfPlay(bodies'[h], play)
              /\ oobFrames'[id] = 0

CountersBounded == \A id \in DOMAIN oobFrames : oobFrames[id] <= OOB_HARD_FRAMES

C6_TimerFreeze ==
  [][gen' = gen =>
       /\ (timerId /\ timerId') => elapsedMs' >= elapsedMs
       /\ sortedCount = Cardinality(SKILLS) => elapsedMs' = elapsedMs]_vars

Completes == "complete" \in pending /\ "complete" \notin pending'

\* C7 as stated (best-time ledger): on every completion the stored best is
\* overwritten with the run's time and lastWasPB becomes true exactly when
\* nothing is stored or the time is strictly less than the stored best;
\* otherwise the stored value is untouched; the stored best never increases.
C7_PersistedLedger ==
  [][/\ Completes =>
          LET isPB == storage[1] # "num" \/ effectElapsed < storage[2]
          IN /\ lastWasPB' = isPB
             /\ storage' = IF isPB THEN NumStored(effectElapsed) ELSE storage
     /\ storage[1] = "num" => (storage'[1] = "num" /\ storage'[2] <= storage[2])]_vars

\* C7 as the effect has it: the comparison is with the best time held in
\* memory (bestMs, null when nothing readable was stored).  lastWasPB becomes
\* true exactly when bestMs is null or the run's time is strictly less; then
\* bestMs becomes the run's time and the stored value becomes that time too
\* unless the write fails; otherwise neither changes.  bestMs never increases.
C7_LedgerRule ==
  [][/\ Completes =>
          LET isPB == bestMs = <<>> \/ effectElapsed < bestMs[1]
          IN /\ lastWasPB' = isPB
             /\ bestMs' = IF isPB THEN <<effectElapsed>> ELSE bestMs
             /\ storage' \in (IF isPB THEN {storage, NumStored(effectElapsed)} ELSE {storage})
     /\ ~Completes => (bestMs' = bestMs /\ storage' = storage)
     /\ bestMs # <<>> => (bestMs' # <<>> /\ bestMs'[1] <= bestMs[1])]_vars

\* a second run has completed with a time that was no personal best
C7_Witness == stopped /\ gen > 0 /\ ~lastWasPB /\ bestMs # <<>> /\ pending = {}

\* C8 (timer start/stop): every reset leaves the timer running; in every
\* settled state the timer is stopped exactly when every item is in a bucket,
\* and the interval is scheduled exactly when the timer is not stopped.
C8_TimerStops ==
  /\ [](pending = {} => (stopped <=> Bucketed = SKILLS))
  /\ [](pending = {} => (timerId <=> ~stopped))
  /\ [][gen' # gen => (timerId' /\ ~stopped')]_vars

\* C9 (reset): a reset of a built session, whatever the progress and whether
\* or not a body is held, leaves every bucket empty, sortedCount at 0, every
\* catalog item with a registered body in the world, and the timer running
\* from zero.
C9_Reset ==
  [][(engine /\ gen' # gen) =>
       /\ bucketItems' = EmptyBuckets
       /\ sortedCount' = 0
       /\ DOMAIN bodyRefs' = SKILLS
       /\ \A id \in SKILLS : bodyRefs'[id] \in world' /\ bodyRefs'[id] \in DOMAIN bodies'
       /\ timerId' /\ ~stopped'
       /\ elapsedMs' = 0 /\ startTime' = now']_vars

\* the state a reset leaves when it came with a body held and an item sorted
C9_Witness ==
  /\ engine /\ gen > 0 /\ pending = {"grow"}
  /\ mcBody # NoBody /\ mcBody[2] < gen
  /\ bucketItems = EmptyBuckets /\ DOMAIN bodyRefs = SKILLS

\* C10 (wrong-bucket rejection): when the held body is released with the
\* pointer inside a bucket of another category, the registry, the world, the
\* buckets and sortedCount are unchanged, and the body sits above the floor
\* line at the clamped horizontal position, moving upwards.
C10_WrongBucket ==
  [][\A m \in ReleasePoints(rect, bucketMinHeight) :
       (WrongRelease(m) /\ EndDragAt(m)) =>
         /\ bodyRefs' = bodyRefs /\ world' = world
         /\ bucketItems' = bucketItems /\ sortedCount' = sortedCount
         /\ mcBody \in world =>
              /\ bodies'[mcBody].x = clampX(bodies[mcBody].x, rect)
              /\ bodies'[mcBody].y = floorY - ChipH \div 2 - 2
              /\ bodies'[mcBody].y + ChipH \div 2 < floorY
              /\ bodies'[mcBody].vy < 0
              /\ bodies'[mcBody].mask = SKILL_MASK_DEFAULT]_vars

\* a registered body that was outside the guards carries the wrong-drop
\* bounce at the clamped position just above the floor line
C10_Witness ==
  \E id \in DOMAIN bodyRefs :
    LET b == bodies[bodyRefs[id]]
    IN /\ b.vy = 0 - WRONG_DROP_BOUNCE
       /\ b.x = GUARD_LEFT * VS + 24
       /\ b.y = floorY - ChipH \div 2 - 2
       /\ mcBody = NoBody

(*************************** the whole catalog *****************************)
CategoryIndex(c) == CHOOSE k \in 1..Len(categories) : categories[k] = c

ItemsOf(c) == {id \in SKILLS : CategoryOf(id) = c}

InBucket(c) == {bucketItems[c][k] : k \in 1..Len(bucketItems[c])}

\* the catalog entry before id, the last one coming before the first
Prev(id) == IF id = 1 THEN Cardinality(skills) ELSE id - 1

\* the chips are taken in catalog order, starting with any of them and
\* wrapping around: the button goes down on a chip whose predecessor is
\* no longer on the board
PickChip ==
  \E h \in world :
    /\ DOMAIN bodyRefs = SKILLS \/ Prev(h[1]) \notin DOMAIN bodyRefs
    /\ StartDragAt([x |-> bodies[h].x, y |-> bodies[h].y])

\* the held chip is released in the middle of the bucket of its own category
DropHome ==
  EndDragAt(BucketCentre(CategoryIndex(CategoryOf(mcBody[1])), rect, bucketMinHeight))

\* a fresh session with the whole catalog in which every chip is dragged to
\* its own bucket, with no simulation step in between and no reset
InitFull == InitWith(skills, 0, {NoStored}, {ContainerRect})

NextFull ==
  \/ PickChip
  \/ DropHome
  \/ IntervalTick
  \/ Advance
  \/ GrowEffect
  \/ CompletionEffect
  \/ FloorEffect

SpecFull == InitFull /\ [][NextFull]_vars

AllDragged == sortedCount = Cardinality(SKILLS) /\ pending = {}

\* C11 as stated (full completion): once all 20 items of a fresh session have
\* been dragged to the bucket of their category, every bucket holds exactly
\* the items of its category, 5 in each, sortedCount is 20, no body is live
\* and the timer is stopped.
C11_FiveEach ==
  AllDragged =>
    /\ \A c \in CategorySet : InBucket(c) = ItemsOf(c) /\ Len(bucketItems[c]) = 5
    /\ sortedCount = 20
    /\ world = {} /\ DOMAIN bodyRefs = {}
    /\ stopped /\ ~timerId

\* C11 with the catalog's real category sizes: every bucket holds exactly the
\* items of its category, once each (6, 7, 4 and 3 of them), sortedCount is
\* 20, no body is live and the timer is stopped.
C11_FullCompletion ==
  AllDragged =>
    /\ \A c \in CategorySet :
         InBucket(c) = ItemsOf(c) /\ Len(bucketItems[c]) = Cardinality(ItemsOf(c))
    /\ <<Len(bucketItems[categories[1]]), Len(bucketItems[categories[2]]),
         Len(bucketItems[categories[3]]), Len(bucketItems[categories[4]])>> = <<6, 7, 4, 3>>
    /\ sortedCount = 20
    /\ world = {} /\ DOMAIN bodyRefs = {}
    /\ stopped /\ ~timerId

\* the whole catalog has been sorted and the completion effect has run
C11_Witness == AllDragged /\ Cardinality(SKILLS) = 20 /\ BucketSizes = 20 /\ stopped

\* C12 (reset and the ledger): a reset schedules the interval, un-stops the
\* timer at zero and clears the new-best flag, and leaves the best time in
\* memory and the stored value exactly as they were.
C12_ResetKeepsLedger ==
  [][gen' # gen =>
       /\ timerId' /\ ~stopped' /\ elapsedMs' = 0 /\ startTime' = now'
       /\ ~lastWasPB'
       /\ bestMs' = bestMs
       /\ storage' = storage]_vars

\* a run that set a new best (held in memory only: the write was dropped) was
\* followed by a reset: the flag is cleared, the timer runs, the best is kept
C12_Witness ==
  /\ gen > 0 /\ pending = {"grow"}
  /\ storage = JunkStored /\ bestMs # <<>>
  /\ ~lastWasPB /\ ~stopped /\ timerId

OpenRelease(m) ==
  /\ mcBody # NoBody
  /\ hitTest(m, rect, bucketMinHeight) = NoCat

\* C13 (no-hit release): when the held body is released with the pointer in
\* no bucket, the registry, the world, the buckets and sortedCount are
\* unchanged; a body whose lower edge is below the floor line is put 2 px
\* above it at the same horizontal position with the upward settle kick, and
\* any other body keeps the position and the velocity it had at release.
C13_NoHitRelease ==
  [][\A m \in ReleasePoints(rect, bucketMinHeight) :
       (OpenRelease(m) /\ EndDragAt(m)) =>
         /\ bodyRefs' = bodyRefs /\ world' = world
         /\ bucketItems' = bucketItems /\ sortedCount' = sortedCount
         /\ mcBody \in world =>
              IF bodies[mcBody].y > floorY - ChipH \div 2
              THEN /\ bodies'[mcBody].x = bodies[mcBody].x
                   /\ bodies'[mcBody].y = floorY - ChipH \div 2 - 2
                   /\ bodies'[mcBody].vy = 0 - SETTLE_KICK
              ELSE /\ bodies'[mcBody].x = bodies[mcBody].x
                   /\ bodies'[mcBody].y = bodies[mcBody].y
                   /\ bodies'[mcBody].vy = bodies[mcBody].vy]_vars

\* two bodies just released in the open, their grace windows still whole:
\* one, released below the floor, sits 2 px above the floor line with the
\* settle kick; the other, released in mid-air, has the velocity the
\* simulation gave it
C13_Witness ==
  /\ mcBody = NoBody
  /\ \E id \in DOMAIN bodyRefs :
       LET b == bodies[bodyRefs[id]]
       IN /\ b.y = floorY - ChipH \div 2 - 2
          /\ b.vy = 0 - SETTLE_KICK
          /\ MapGet(releaseGrace, id) = RELEASE_GRACE_FRAMES
  /\ \E id \in DOMAIN bodyRefs :
       LET b == bodies[bodyRefs[id]]
       IN /\ b.y < floorY - ChipH \div 2
          /\ b.vy > 0
          /\ MapGet(releaseGrace, id) = RELEASE_GRACE_FRAMES

\* C14 (persistence errors): a stored value that cannot be read or is no
\* number leaves the session without a best time until its first completion;
\* a completion stops the timer and leaves buckets, sortedCount, bodies and
\* the displayed time alone whatever the write does, sets the new-best flag
\* and the best time in memory from the best in memory alone, and leaves the
\* stored value either rewritten or, when the write fails, as it was.
C14_PersistenceErrors ==
  /\ []((gen = 0 /\ ~stopped /\ storage[1] # "num") => bestMs = <<>>)
  /\ [][Completes =>
          LET isPB == bestMs = <<>> \/ effectElapsed < bestMs[1]
          IN /\ stopped' /\ ~timerId'
             /\ UNCHANGED <<bucketItems, sortedCount, world, bodyRefs, bodies, elapsedMs>>
             /\ lastWasPB' = isPB
             /\ bestMs' = IF isPB THEN <<effectElapsed>> ELSE bestMs
             /\ storage' \in {storage, NumStored(effectElapsed)}
             /\ ~isPB => storage' = storage]_vars

\* both errors in one run: the stored best 0 could not be read, so the run's
\* time 1 became the best in memory, and the write of it was dropped
C14_Witness ==
  /\ stopped /\ ~timerId /\ lastWasPB
  /\ storage = NumStored(0) /\ bestMs = <<1>>
  /\ BucketSizes = Cardinality(SKILLS) /\ world = {}

\* C15 (collision-category switching): in every state in which a simulation
\* step can run, a body of the world or in the pointer's hold has the drag
\* mask exactly when it is the body the pointer holds, and every other body
\* has the default mask.
C15_MaskSwitch ==
  pending = {} =>
    \A h \in DOMAIN bodies :
      /\ bodies[h].mask = SKILL_MASK_DRAG <=> h = mcBody
      /\ bodies[h].mask = SKILL_MASK_DEFAULT <=> h # mcBody

\* C16 (out-of-bounds counter rule): after every simulation step the counter
\* of a registered body is 0 if the step left the body inside the play box
\* (within tolerance), if the pointer holds the body, or if its grace window
\* is open; otherwise it is the previous counter plus 1, or 0 when that sum
\* passes the hard threshold; no counter is ever negative.
C16_CounterRule ==
  /\ [](\A id \in DOMAIN oobFrames : oobFrames[id] >= 0)
  /\ [][\A f \in [world -> PhysicsOutcomes(rect, floorY)] :
          TickWith(f) =>
            \A id \in DOMAIN bodyRefs :
              LET h == bodyRefs[id]
                  n == MapGet(oobFrames, id) + 1
                  exempt == \/ ~outOfPlay(f[h], getPlayBox(rect, floorY))
                            \/ mcBody = h
                            \/ MapGet(releaseGrace, id) > 0
              IN oobFrames'[id] =
                   IF exempt \/ n > OOB_HARD_FRAMES THEN 0 ELSE n]_vars

\* C17 (grace period): every end-drag that leaves the item registered sets
\* its grace window to 36 ticks; a begin-drag of the item clears the window,
\* so the dragged item never has one; on every tick with the window open the
\* body is left exactly as the simulation step left it (no rescue, no kick),
\* its counter is 0 and the window shrinks by one; once the window is shut
\* the out-of-bounds rule applies again.
C17_GracePeriod ==
  /\ [](draggingId # 0 => MapGet(releaseGrace, draggingId) = 0)
  /\ [][\A m \in ReleasePoints(rect, bucketMinHeight) :
          (EndDragAt(m) /\ mcBody[1] \in DOMAIN bodyRefs') =>
            releaseGrace'[mcBody[1]] = 36]_vars
  /\ [][\A h \in world :
          StartDragAt([x |-> bodies[h].x, y |-> bodies[h].y]) =>
            MapGet(releaseGrace', h[1]) = 0]_vars
  /\ [][\A f \in [world -> PhysicsOutcomes(rect, floorY)] :
          TickWith(f) =>
            /\ \A id \in DOMAIN bodyRefs :
                 LET h == bodyRefs[id]
                     grace == MapGet(releaseGrace, id)
                 IN (grace > 0) =>
                      /\ releaseGrace'[id] = grace - 1
                      /\ oobFrames'[id] = 0
                      /\ bodies'[h].x = f[h].x /\ bodies'[h].y = f[h].y
                      /\ bodies'[h].vy = f[h].vy
            /\ RescueRule(f, FALSE)]_vars

\* the window of a released body has run out and the monitor counts it again
C17_Witness ==
  \E id \in DOMAIN bodyRefs :
    /\ id \in DOMAIN releaseGrace
    /\ releaseGrace[id] = 0
    /\ MapGet(oobFrames, id) > 0
    /\ mcBody = NoBody

\* one chip, an uncapped run, and the three kinds of container: roomy, too
\* low and too narrow (the last two get the fallback play box)
InitGeometry ==
  InitWith(CatalogWindow(SoloItems), Uncapped, {NoStored},
           {ContainerRect, ShortRect, NarrowRect})

SpecGeometry == InitGeometry /\ [][Next]_vars

FallbackBox ==
  LET play == getPlayBox(rect, floorY)
  IN play.top # GUARD_TOP * VS \/ play.left # GUARD_LEFT * VS

SoftTier(f) ==
  {id \in DOMAIN bodyRefs :
     /\ draggingId # id
     /\ MapGet(releaseGrace, id) = 0
     /\ outOfPlay(f[bodyRefs[id]], getPlayBox(rect, floorY))
     /\ MapGet(oobFrames, id) + 1 > OOB_SOFT_FRAMES
     /\ MapGet(oobFrames, id) + 1 <= OOB_HARD_FRAMES}

\* C19 as stated (soft rescue is a nudge): on a tick on which the soft tier
\* acts on a body, only the body's velocity is set; its position is the one
\* the simulation step left it at.
C19_SoftNudge ==
  [][\A f \in [world -> PhysicsOutcomes(rect, floorY)] :
       TickWith(f) =>
         \A id \in SoftTier(f) :
           /\ bodies'[bodyRefs[id]].x = f[bodyRefs[id]].x
           /\ bodies'[bodyRefs[id]].y = f[bodyRefs[id]].y
           /\ bodies'[bodyRefs[id]].vy = 0 - SETTLE_KICK]_vars

\* C19 as the handler has it: the soft tier sets the body's position to the
\* nearest point of the play box inset by 6 px at the sides and by half the
\* chip plus 4 px at the top, no lower than half the chip plus 4 px above
\* the box's bottom and the floor, gives it the upward settle kick, and
\* leaves its counter at the incremented value; it never goes to the centre
\* unless that is the nearest point.
C19_SoftClamp ==
  [][\A f \in [world -> PhysicsOutcomes(rect, floorY)] :
       TickWith(f) =>
         \A id \in SoftTier(f) :
           LET h == bodyRefs[id]
               play == getPlayBox(rect, floorY)
               maxY == Min(play.bottom, floorY) - ChipH \div 2 - 4
           IN /\ bodies'[h].x = Min(Max(f[h].x, play.left + 6), play.right - 6)
              /\ bodies'[h].y = Min(Max(f[h].y, play.top + ChipH \div 2 + 4), maxY)
              /\ bodies'[h].vy = 0 - SETTLE_KICK
              /\ oobFrames'[id] = MapGet(oobFrames, id) + 1
              /\ (bodies'[h].x # f[h].x \/ bodies'[h].y # f[h].y)]_vars

\* a body that was left of the play box has been set on the box's inset left
\* edge with the kick, its counter between the two thresholds
C19_Witness ==
  \E id \in DOMAIN bodyRefs :
    LET b == bodies[bodyRefs[id]]
        play == getPlayBox(rect, floorY)
    IN /\ b.x = play.left + 6
       /\ b.vy = 0 - SETTLE_KICK
       /\ MapGet(oobFrames, id) > OOB_SOFT_FRAMES
       /\ MapGet(oobFrames, id) <= OOB_HARD_FRAMES

\* C20 (settle kick): on every simulation step, every registered body that
\* is not dragged and that the step left with a vertical velocity near zero
\* at or through the floor line has the upward settle kick at the end of the
\* step, whether or not its grace window is open.
C20_SettleKick ==
  [][\A f \in [world -> PhysicsOutcomes(rect, floorY)] :
       TickWith(f) =>
         \A id \in DOMAIN bodyRefs :
           LET h == bodyRefs[id]
           IN (/\ draggingId # id /\ mcBody # h
               /\ Abs(f[h].vy) < RestVy
               /\ f[h].y > floorY - ChipH \div 2 - 2) =>
                bodies'[h].vy = 0 - SETTLE_KICK]_vars

(*************************** a container that changes size *****************)
\* the window is resized: the container's rectangle changes and the component
\* re-renders; no effect has the rectangle among its dependencies, and every
\* handler reads getBoundingClientRect() afresh
Resize ==
  /\ engine
  /\ rect' \in {ContainerRect, ShortRect} \ {rect}
  /\ UNCHANGED <<SKILLS, tagRefs, shown, rafId, runner, mounted,
                 engine, gen, world, bodyRefs, bodies, mcBody, draggingId,
                 oobFrames, releaseGrace, bucketItems, sortedCount, bucketMinHeight,
                 floorY, now, startTime, elapsedMs, timerId, stopped, bestMs, storage,
                 lastWasPB, pending, effectElapsed, framesLeft>>

NextResize ==
  \/ Next
  \/ Resize

InitResize == InitWith(CatalogWindow(SoloItems), MaxFrames, {NoStored}, {ContainerRect})

SpecResize == InitResize /\ [][NextResize]_vars

\* C21 (resize during drag): on every step during which the pointer keeps
\* its hold, the floor stays where it is, the play box that clamps and
\* rescues are computed from stays the same, and a change of the container's
\* size moves no body; and the step that ends the drag with no effect left
\* to run leaves the floor where the container's size puts it.
C21_ResizeDeferred ==
  /\ [][(mcBody # NoBody /\ mcBody' = mcBody) =>
          /\ floorY' = floorY
          /\ getPlayBox(rect', floorY') = getPlayBox(rect, floorY)
          /\ rect' # rect => bodies' = bodies]_vars
  /\ [][(mcBody # NoBody /\ mcBody' = NoBody /\ pending' = {}) =>
          floorY' = computeFloorY(rect', bucketMinHeight')]_vars

\* C22 (removed bodies): an end-drag of a body that is no longer in the world
\* leaves the registry, the world, the buckets and sortedCount as they were.
C22_RemovedBodyNoOp ==
  [][\A m \in ReleasePoints(rect, bucketMinHeight) :
       (mcBody \notin world /\ EndDragAt(m)) =>
         /\ bodyRefs' = bodyRefs /\ world' = world
         /\ bucketItems' = bucketItems /\ sortedCount' = sortedCount]_vars

\* bucket rectangles that overlap their neighbours, and pointer positions
\* inside, on the edges of and outside them
StackedRects ==
  [k \in 1..Len(categories) |->
     [left |-> 50 * (k - 1), right |-> 50 * (k - 1) + 100, top |-> 0, bottom |-> 100]]

StackedPoints == {[x |-> px, y |-> py] : px \in {0, 50, 75, 100, 125, 250, 251}, py \in {0, 100, 101}}

\* C23 (hit testing): the outcome of an end-drag is decided by the pointer's
\* position alone: the item is sorted exactly when the first bucket, in
\* category order, whose rectangle holds the pointer (edges included) is the
\* bucket of the item's category, wherever the body is; and of rectangles
\* that overlap, the one of the earlier category wins.
C23_HitByPointer ==
  /\ [][\A m \in ReleasePoints(rect, bucketMinHeight) :
          EndDragAt(m) =>
            LET ks == {k \in 1..Len(categories) :
                         /\ BucketRect(k, rect, bucketMinHeight).left <= m.x
                         /\ m.x <= BucketRect(k, rect, bucketMinHeight).right
                         /\ BucketRect(k, rect, bucketMinHeight).top <= m.y
                         /\ m.y <= BucketRect(k, rect, bucketMinHeight).bottom}
                own == \E k \in ks :
                         /\ \A j \in ks : k <= j
                         /\ categories[k] = CategoryOf(mcBody[1])
            IN /\ sortedCount' = sortedCount + (IF own THEN 1 ELSE 0)
               /\ own => mcBody \notin world' /\ mcBody[1] \notin DOMAIN bodyRefs'
               /\ ~own => /\ bucketItems' = bucketItems
                          /\ bodyRefs' = bodyRefs
                          /\ world' = world]_vars
  /\ [](\A m \in StackedPoints :
          \A k \in 1..Len(categories) :
            (/\ Inside(m, StackedRects[k])
             /\ \A j \in 1..(k - 1) : ~Inside(m, StackedRects[j]))
              => firstHit(m, StackedRects) = categories[k])
  /\ [](\A m \in StackedPoints :
          (\A k \in 1..Len(categories) : ~Inside(m, StackedRects[k]))
            => firstHit(m, StackedRects) = NoCat)

\* an item is in its bucket although no simulation step has run: its body
\* was still at its spawn place, far from every bucket, when the pointer
\* let go of it inside the bucket
C23_Witness ==
  /\ BucketSizes > 0
  /\ framesLeft = MaxFrames
  /\ gen = 0

(*************************** chip elements ***********************************)
\* the ref callback of a chip's element: the element is registered
MountTag ==
  \E id \in SKILLS \ tagRefs :
    /\ tagRefs' = tagRefs \cup {id}
    /\ UNCHANGED <<SKILLS, shown, rafId, runner, mounted,
                   rect, engine, gen, world, bodyRefs, bodies, mcBody, draggingId,
                   oobFrames, releaseGrace, bucketItems, sortedCount, bucketMinHeight,
                   floorY, now, startTime, elapsedMs, timerId, stopped, bestMs, storage,
                   lastWasPB, pending, effectElapsed, framesLeft>>

NextMount == \/ Next \/ MountTag

InitMount ==
  InitFrom(CatalogWindow(SoloItems), SUBSET CatalogWindow(SoloItems), Uncapped,
           {NoStored}, {ContainerRect})

\* the runner keeps stepping, the elements do get mounted; resets and drags
\* are the player's
SpecMount == InitMount /\ [][NextMount]_vars /\ WF_vars(Tick) /\ WF_vars(MountTag)

Sync ==
  /\ rafId
  /\ shown' = [id \in DOMAIN shown \cup (DOMAIN bodyRefs \cap tagRefs) |->
                 IF id \in DOMAIN bodyRefs \cap tagRefs
                 THEN displayClamp(bodies[bodyRefs[id]], chipDiag, rect)
                 ELSE shown[id]]
  /\ UNCHANGED <<SKILLS, tagRefs, rafId, runner, mounted, rect, engine, gen, world,
                 bodyRefs, bodies, mcBody, draggingId, oobFrames, releaseGrace,
                 bucketItems, sortedCount, bucketMinHeight, floorY, now, startTime,
                 elapsedMs, timerId, stopped, bestMs, storage, lastWasPB, pending,
                 effectElapsed, framesLeft>>

NextSync == \/ Next \/ Sync

InitSync ==
  InitWith(CatalogWindow(SoloItems), MaxFrames, {NoStored},
           {ContainerRect, ShortRect, NarrowRect})

SpecSync == InitSync /\ [][NextSync]_vars

\* what a display frame leaves alone: the simulation and every counter
SyncKeeps ==
  UNCHANGED <<world, bodyRefs, bodies, mcBody, draggingId, oobFrames, releaseGrace,
              bucketItems, sortedCount, floorY, elapsedMs, pending, framesLeft>>

\* C25 (display clamp) as stated: after every display frame the published
\* position of every live body with half diagonal d lies within
\* d <= x <= W - d and d <= y <= H - d, and the frame changes nothing of the
\* simulation.
C25_DisplayClamp ==
  [][Sync =>
       /\ \A id \in DOMAIN bodyRefs :
            /\ chipDiag <= shown'[id].x /\ shown'[id].x <= rect.width - chipDiag
            /\ chipDiag <= shown'[id].y /\ shown'[id].y <= rect.height - chipDiag
       /\ SyncKeeps]_vars

\* C25 (display clamp), amended: after every display frame the published
\* position never exceeds W - d and H - d; it is at least d on an axis where
\* the container measures 2d or more, and is exactly W - d (H - d) where it
\* measures less; the frame changes nothing of the simulation.
C25_ClampUpperWins ==
  [][Sync =>
       /\ \A id \in DOMAIN bodyRefs :
            /\ shown'[id].x <= rect.width - chipDiag
            /\ shown'[id].y <= rect.height - chipDiag
            /\ IF rect.width >= 2 * chipDiag
               THEN shown'[id].x >= chipDiag
               ELSE shown'[id].x = rect.width - chipDiag
            /\ IF rect.height >= 2 * chipDiag
               THEN shown'[id].y >= chipDiag
               ELSE shown'[id].y = rect.height - chipDiag
            /\ (/\ chipDiag <= bodies[bodyRefs[id]].x
                /\ bodies[bodyRefs[id]].x <= rect.width - chipDiag)
                 => shown'[id].x = bodies[bodyRefs[id]].x
       /\ SyncKeeps]_vars

\* in the narrow container, after a simulation step and a display frame,
\* the chip is shown at W - d, left of d
C25_Witness ==
  \E id \in DOMAIN bodyRefs \cap DOMAIN shown :
    /\ rect = NarrowRect
    /\ framesLeft < MaxFrames
    /\ shown[id] = displayClamp(bodies[bodyRefs[id]], chipDiag, rect)
    /\ shown[id].x = rect.width - chipDiag
    /\ shown[id].x < chipDiag

(*************************** the counters and the registry *******************)
\* C26 (sorted count): in every reachable state sortedCount equals the sum
\* of the sizes of the buckets.
C26_CountIsBucketSum == sortedCount = BucketSizes

\* C27 (world and registry): once the engine has been built, in every
\* reachable state the skill bodies in the world are exactly the bodies of
\* the registry: no body of the world is unknown to the registry and no
\* registered body is missing from the world.
C27_WorldIsRegistry == engine => world = Range(bodyRefs)

\* C28 (no leak across reset): right after a reset no drag is active, no
\* item has a counter above 0 or grace ticks left; and in every state only
\* items with a registered body have a counter or a grace entry.
C28_ResetClearsTransients ==
  /\ [][gen' # gen =>
          /\ draggingId' = 0
          /\ \A id \in SKILLS :
               MapGet(oobFrames', id) = 0 /\ MapGet(releaseGrace', id) = 0]_vars
  /\ []((DOMAIN oobFrames) \cup (DOMAIN releaseGrace) \subseteq DOMAIN bodyRefs)

\* C29 (completion against the timer): the elapsed time the completion
\* effect compares and persists is the elapsed time that is published when it
\* has run, and a personal best on display is the published elapsed time.
C29_FrozenElapsed ==
  /\ [][Completes => effectElapsed = elapsedMs']_vars
  /\ []((stopped /\ lastWasPB /\ pending = {}) => bestMs = <<elapsedMs>>)

(*************************** teardown **************************************)
\* the component is unmounted (Exit): the cleanup the mount effect returned
\* is run; the effect returns none when it bailed out on a container without
\* size
Unmount ==
  /\ mounted
  /\ mounted' = FALSE
  /\ pending' = {}
  /\ IF engine
     THEN /\ rafId' = FALSE
          /\ runner' = FALSE
          /\ engine' = FALSE
          /\ world' = {}
          /\ bodyRefs' = <<>>
          /\ bodies' = <<>>
          /\ mcBody' = NoBody
          /\ oobFrames' = <<>>
          /\ releaseGrace' = <<>>
          /\ draggingId' = 0
          /\ timerId' = FALSE
     ELSE UNCHANGED <<rafId, runner, engine, world, bodyRefs, bodies, mcBody, oobFrames,
                      releaseGrace, draggingId, timerId>>
  /\ UNCHANGED <<SKILLS, tagRefs, shown, rect, gen, bucketItems, sortedCount,
                 bucketMinHeight, floorY, now, startTime, elapsedMs, stopped, bestMs,
                 storage, lastWasPB, effectElapsed, framesLeft>>

NextUnmount == \/ Next \/ Sync \/ Unmount

InitUnmount ==
  InitWith(CatalogWindow(SoloItems), MaxFrames, {NoStored}, {ContainerRect, ZeroRect})

SpecUnmount == InitUnmount /\ [][NextUnmount]_vars

\* C30 (teardown): once the component is unmounted nothing periodic is left
\* scheduled, whichever way the mount effect went: the runner is stopped, the
\* frame callback of sync is cancelled and the timer's interval is cleared.
C30_TeardownStopsAll == ~mounted => (~runner /\ ~rafId /\ ~timerId)

====
